---------------------------- MODULE Spec2Model ----------------------------
(***************************************************************************)
(* Model of the l3bin ISIN (Integerized Sinusoidal) binning grid:          *)
(* Isin::new builds the per-row table, and lat2row, lonlat2bin,            *)
(* bin2lonlat and bin2bounds query it (src/src/isin.rs), together with the *)
(* linear-scan variants of the two inverse queries (src/src/lib.rs).       *)
(*                                                                         *)
(* f64 values are modelled as exact rationals <<num, den>> in lowest terms *)
(* with den > 0; usize values are naturals.  Rust vectors are 0-based and  *)
(* TLA+ sequences 1-based: a row r of the code is element r + 1 here.      *)
(* The edges bin2bounds returns are also computed as IEEE 754 computes     *)
(* them, rounding every operation to 53 bits (specification SpecF64).      *)
(***************************************************************************)
EXTENDS Integers, Sequences, FiniteSets, TLC

VARIABLES isin, call, ret

vars == <<isin, call, ret>>

\* ------------------------------------------------------------------ bounds

\* Largest row count handed to Isin::new.
MaxRows == 4

\* Longest batch handed to a query.
MaxBatch == 2

\* Largest row count of a table whose rectangles are computed in rounded f64.
MaxRowsF64 == 7

\* --------------------------------------------------------------- constants

MIN_LON == -180
MAX_LON == 180
MIN_LAT == -90
MAX_LAT == 90

\* ------------------------------------------------------- f64 as rationals

Abs(x) == IF x < 0 THEN -x ELSE x

RECURSIVE GCD(_, _)
GCD(a, b) == IF b = 0 THEN a ELSE GCD(b, a % b)

\* The rational n/d in lowest terms with a positive denominator.
Rat(n, d) ==
    LET g == GCD(Abs(n), Abs(d))
        s == IF d < 0 THEN -1 ELSE 1
    IN  <<(s * n) \div g, (s * d) \div g>>

\* usize as f64
F(n) == <<n, 1>>

RAdd(p, q) == Rat(p[1] * q[2] + q[1] * p[2], p[2] * q[2])
RSub(p, q) == Rat(p[1] * q[2] - q[1] * p[2], p[2] * q[2])
RMul(p, q) == Rat(p[1] * q[1], p[2] * q[2])
RDiv(p, q) == Rat(p[1] * q[2], p[2] * q[1])
RLt(p, q) == p[1] * q[2] < q[1] * p[2]
RLe(p, q) == p[1] * q[2] <= q[1] * p[2]

\* f64 as usize: truncation toward zero, saturating at 0 for negatives.
AsUsize(q) == IF q[1] < 0 THEN 0 ELSE q[1] \div q[2]

\* Fixed-point precision of the model of f64::cos.
CosScale == 10000

\* std::f64::consts::PI
PI == Rat(31416, 10000)

\* One more term of the cosine series: t is the k-th term's magnitude.
RECURSIVE CosSeries(_, _, _, _)
CosSeries(x2, t, k, acc) ==
    IF t = 0 THEN acc
    ELSE LET nt == ((t * x2) \div CosScale) \div ((2 * k - 1) * (2 * k))
         IN  CosSeries(x2, nt, k + 1, IF k % 2 = 1 THEN acc - nt ELSE acc + nt)

\* f64::cos of x radians, |x| <= pi/2, computed in fixed point.
Cos(x) ==
    LET xf == (Abs(x[1]) * CosScale) \div x[2]
        x2 == (xf * xf) \div CosScale
    IN  Rat(CosSeries(x2, CosScale, 1, CosScale), CosScale)

\* ------------------------------------------------------------- satellites

Custom(n) == [tag |-> "Custom", n |-> n]

num_latitude_rows(sat) ==
    CASE sat.tag = "Custom" -> sat.n
      [] sat.tag = "Czcs" -> 1080
      [] sat.tag = "Meris" -> 2160
      [] sat.tag = "Modis" -> 4320
      [] sat.tag = "Seawifs" -> 2160
      [] sat.tag = "Sentinel3" -> 4320
      [] sat.tag = "Viirs" -> 4320

\* Satellite::with_num_latitude_rows: a custom row count is accepted when it
\* is divisible by 360.
with_num_latitude_rows(num_rows) ==
    IF num_rows % 360 = 0
    THEN [kind |-> "Ok", err |-> "", max_bin |-> 0,
          val |-> <<Custom(num_rows)>>, rows |-> <<>>]
    ELSE [kind |-> "Err", err |-> "InvalidNumLatitudeRows", max_bin |-> 0,
          val |-> <<>>, rows |-> <<>>]

\* --------------------------------------------------------- bounds_checker

is_vector_within_bounds(values, lower_bound, upper_bound) ==
    \A i \in 1..Len(values) :
        RLe(F(lower_bound), values[i]) /\ RLe(values[i], F(upper_bound))

\* ---------------------------------------------------------------- results

\* A call's outcome: kind is "Ok", "Err" (a returned error value) or "Panic"
\* (abnormal termination); err names the error and max_bin the bound it
\* carries; val is the returned vector; rows records the row each element of
\* the batch was computed in.
Ok(val, rows) ==
    [kind |-> "Ok", err |-> "", max_bin |-> 0, val |-> val, rows |-> rows]
Err(err, max_bin) ==
    [kind |-> "Err", err |-> err, max_bin |-> max_bin, val |-> <<>>, rows |-> <<>>]
Panic(err) ==
    [kind |-> "Panic", err |-> err, max_bin |-> 0, val |-> <<>>, rows |-> <<>>]

\* No Isin value exists (before construction, or after a failed one).
NoIsin ==
    [basebin |-> <<>>, numbin |-> <<>>, latbin |-> <<>>, totbin |-> 0, numrows |-> 0]

\* -------------------------------------------------------------- Isin::new

\* Center latitude of a row.
row_lat(row, numrows) ==
    RSub(RDiv(RMul(RAdd(F(row), Rat(1, 2)), F(180)), F(numrows)), F(90))

\* Number of bins of a row.
row_num(row, numrows) ==
    LET pi_over_180 == RDiv(PI, F(180))
        cos_lat == Cos(RMul(row_lat(row, numrows), pi_over_180))
    IN  AsUsize(RAdd(RMul(RMul(F(2), F(numrows)), cos_lat), Rat(1, 2)))

\* The loop of Isin::new from iteration `row` on.
RECURSIVE new_loop(_, _, _, _, _)
new_loop(row, numrows, basebin, numbin, latbin) ==
    IF row >= numrows
    THEN [basebin |-> basebin, numbin |-> numbin, latbin |-> latbin]
    ELSE LET latbin2 == Append(latbin, row_lat(row, numrows))
             numbin2 == Append(numbin, row_num(row, numrows))
             basebin2 == IF row > 0
                         THEN Append(basebin, basebin[row] + numbin2[row])
                         ELSE basebin
         IN  new_loop(row + 1, numrows, basebin2, numbin2, latbin2)

\* Mutant: the total without the final - 1.
tot_bins_no_minus(basebin, numbin, numrows) ==
    basebin[numrows] + numbin[numrows]

tot_bins(basebin, numbin, numrows) ==
    basebin[numrows] + numbin[numrows] - 1

\* Isin::new: the table, or a panic when numrows - 1 underflows (debug
\* builds) or indexes past the vectors (release builds).
Isin_new(sat) ==
    LET numrows == num_latitude_rows(sat)
        t == new_loop(0, numrows, <<1>>, <<>>, <<>>)
    IN  IF numrows = 0
        THEN [kind |-> "Panic", isin |-> NoIsin]
        ELSE [kind |-> "Ok",
              isin |-> [basebin |-> t.basebin, numbin |-> t.numbin,
                        latbin |-> t.latbin,
                        totbin |-> tot_bins(t.basebin, t.numbin, numrows),
                        numrows |-> numrows]]

\* ---------------------------------------------------------- Isin::lat2row

\* Mutant: the 1-based row of the lib.rs variant.
lat_row_one_based(numrows, lat) ==
    AsUsize(RAdd(RDiv(RMul(RAdd(F(90), lat), F(numrows)), F(180)), F(1)))

\* The row formula of lat2row.
lat_row(numrows, lat) ==
    AsUsize(RDiv(RMul(RAdd(F(90), lat), F(numrows)), F(180)))

lat2row(self, lat) ==
    IF ~is_vector_within_bounds(<<lat>>, MIN_LAT, MAX_LAT)
    THEN Err("latitude", 0)
    ELSE Ok(<<lat_row(self.numrows, lat)>>, <<>>)

\* ------------------------------------------------------- Isin::lonlat2bin

\* Mutant: the column rounded to nearest instead of truncated.
lon_col_rounded(num, lon) ==
    LET col == AsUsize(RAdd(RMul(RAdd(lon, F(180)), RDiv(F(num), F(360))),
                            Rat(1, 2)))
    IN  IF col >= num THEN num - 1 ELSE col

\* The column of a longitude in a row of `num` bins, clamped to the row.
lon_col(num, lon) ==
    LET col == AsUsize(RMul(RAdd(lon, F(180)), RDiv(F(num), F(360))))
    IN  IF col >= num THEN num - 1 ELSE col

\* The loop of lonlat2bin from iteration i on (i is 0-based); indexing a
\* vector past its end panics.
RECURSIVE lonlat2bin_loop(_, _, _, _, _, _)
lonlat2bin_loop(self, lon, lat, i, bin, rows) ==
    IF i >= Len(lat) THEN Ok(bin, rows)
    ELSE LET r == lat2row(self, lat[i + 1])
         IN  IF r.kind # "Ok" THEN r
             ELSE LET row == r.val[1]
                  IN  IF i >= Len(lon) \/ row >= Len(self.numbin)
                      THEN Panic("index out of bounds")
                      ELSE lonlat2bin_loop(self, lon, lat, i + 1,
                               Append(bin, self.basebin[row + 1]
                                           + lon_col(self.numbin[row + 1], lon[i + 1])),
                               Append(rows, row))

\* Mutant: no validation of the batch before the loop.
lonlat2bin_lazy(self, lon, lat) ==
    lonlat2bin_loop(self, lon, lat, 0, <<>>, <<>>)

lonlat2bin(self, lon, lat) ==
    IF ~is_vector_within_bounds(lon, MIN_LON, MAX_LON)
    THEN Err("longitudes", 0)
    ELSE IF ~is_vector_within_bounds(lat, MIN_LAT, MAX_LAT)
    THEN Err("latitudes", 0)
    ELSE lonlat2bin_loop(self, lon, lat, 0, <<>>, <<>>)

\* ---------------------------------------------------- Isin::validate_bins

\* Mutant: the upper bound off by one.
validate_bins_loose(self, bins) ==
    IF ~(\A i \in 1..Len(bins) : bins[i] >= 1 /\ bins[i] <= self.totbin + 1)
    THEN Err("InvalidBinRange", self.totbin)
    ELSE Ok(<<>>, <<>>)

validate_bins(self, bins) ==
    IF ~(\A i \in 1..Len(bins) : bins[i] >= 1 /\ bins[i] <= self.totbin)
    THEN Err("InvalidBinRange", self.totbin)
    ELSE Ok(<<>>, <<>>)

\* ------------------------------------------------------- Isin::bin2lonlat

\* slice::binary_search over a sorted vector: found with the 0-based index of
\* the match, or not found with the 0-based insertion point.
RECURSIVE binary_search(_, _, _, _)
binary_search(s, x, lo, hi) ==
    IF lo >= hi THEN [found |-> FALSE, idx |-> lo]
    ELSE LET mid == (lo + hi) \div 2
         IN  IF s[mid + 1] = x THEN [found |-> TRUE, idx |-> mid]
             ELSE IF s[mid + 1] < x THEN binary_search(s, x, mid + 1, hi)
             ELSE binary_search(s, x, lo, mid)

\* Mutant: the insertion point taken as the row.
find_row_no_minus(self, bin_val) ==
    binary_search(self.basebin, bin_val, 0, Len(self.basebin)).idx

\* The row of a bin: an exact match gives the index, otherwise the insertion
\* point minus one; -1 stands for the usize underflow of 0 - 1.
find_row(self, bin_val) ==
    LET r == binary_search(self.basebin, bin_val, 0, Len(self.basebin))
    IN  IF r.found THEN r.idx ELSE r.idx - 1

\* Center longitude of a bin of a row.
bin_lon(self, bin_val, row) ==
    RSub(RDiv(RMul(F(360),
                   RAdd(RSub(F(bin_val), F(self.basebin[row + 1])), Rat(1, 2))),
              F(self.numbin[row + 1])),
         F(180))

RECURSIVE bin2lonlat_loop(_, _, _, _, _)
bin2lonlat_loop(self, bin, i, result, rows) ==
    IF i >= Len(bin) THEN Ok(result, rows)
    ELSE LET bin_val == IF bin[i + 1] < 1 THEN 1 ELSE bin[i + 1]
             row == find_row(self, bin_val)
         IN  IF row < 0 THEN Panic("overflow")
             ELSE IF row >= Len(self.latbin) THEN Panic("index out of bounds")
             ELSE bin2lonlat_loop(self, bin, i + 1,
                      Append(result, <<bin_lon(self, bin_val, row), self.latbin[row + 1]>>),
                      Append(rows, row))

bin2lonlat(self, bin) ==
    LET v == validate_bins(self, bin)
    IN  IF v.kind # "Ok" THEN v ELSE bin2lonlat_loop(self, bin, 0, <<>>, <<>>)

\* ------------------------------------------------------- Isin::bin2bounds

\* The rectangle (north, south, west, east) of a bin of a row.
bin_bounds(self, bin_val, row) ==
    LET north == RAdd(self.latbin[row + 1], RDiv(F(90), F(self.numrows)))
        south == RSub(self.latbin[row + 1], RDiv(F(90), F(self.numrows)))
        lon == bin_lon(self, bin_val, row)
        west == RSub(lon, RDiv(F(180), F(self.numbin[row + 1])))
        east == RAdd(lon, RDiv(F(180), F(self.numbin[row + 1])))
    IN  <<north, south, west, east>>

RECURSIVE bin2bounds_loop(_, _, _, _, _)
bin2bounds_loop(self, bin, i, result, rows) ==
    IF i >= Len(bin) THEN Ok(result, rows)
    ELSE LET bin_val == bin[i + 1]
             row == find_row(self, bin_val)
         IN  IF row < 0 THEN Panic("overflow")
             ELSE IF row >= Len(self.latbin) THEN Panic("index out of bounds")
             ELSE bin2bounds_loop(self, bin, i + 1,
                      Append(result, bin_bounds(self, bin_val, row)),
                      Append(rows, row))

bin2bounds(self, bin) ==
    LET v == validate_bins(self, bin)
    IN  IF v.kind # "Ok" THEN v ELSE bin2bounds_loop(self, bin, 0, <<>>, <<>>)

\* ------------------------------------------------ f64 with IEEE rounding

(***************************************************************************)
(* The exact value of an f64 of magnitude below 1024 that is a multiple of *)
(* 2^-63, which every f64 that bin2bounds computes is: a sign and the      *)
(* magnitude i + a/2^21 + b/2^42 + c/2^63 in limbs of 21 bits.  Each       *)
(* operation computes the exact result and rounds it to the 53 significant *)
(* bits of an f64, to nearest, ties to even.                               *)
(***************************************************************************)
Limb == 2 ^ 21

Mag(i, a, b, c) == [i |-> i, a |-> a, b |-> b, c |-> c]

MagZero == Mag(0, 0, 0, 0)

MagLt(x, y) ==
    \/ x.i < y.i
    \/ x.i = y.i /\ x.a < y.a
    \/ x.i = y.i /\ x.a = y.a /\ x.b < y.b
    \/ x.i = y.i /\ x.a = y.a /\ x.b = y.b /\ x.c < y.c

MagAdd(x, y) ==
    LET c0 == x.c + y.c
        b0 == x.b + y.b + (c0 \div Limb)
        a0 == x.a + y.a + (b0 \div Limb)
    IN  Mag(x.i + y.i + (a0 \div Limb), a0 % Limb, b0 % Limb, c0 % Limb)

\* x - y for x >= y.
MagSub(x, y) ==
    LET c0 == x.c - y.c
        b0 == x.b - y.b - (IF c0 < 0 THEN 1 ELSE 0)
        a0 == x.a - y.a - (IF b0 < 0 THEN 1 ELSE 0)
    IN  Mag(x.i - y.i - (IF a0 < 0 THEN 1 ELSE 0), a0 % Limb, b0 % Limb, c0 % Limb)

\* Number of bits of a limb.
BitLen(n) == IF n = 0 THEN 0 ELSE CHOOSE k \in 1..22 : 2 ^ (k - 1) <= n /\ n < 2 ^ k

\* Number of bits of a magnitude, counted from the 2^-63 bit.
MagBits(m) ==
    IF m.i > 0 THEN 63 + BitLen(m.i)
    ELSE IF m.a > 0 THEN 42 + BitLen(m.a)
    ELSE IF m.b > 0 THEN 21 + BitLen(m.b)
    ELSE BitLen(m.c)

\* Round to nearest, ties to even, at 53 significant bits; sticky says the
\* exact value has nonzero bits below 2^-63.
Round53(m, sticky) ==
    LET d == MagBits(m) - 53
    IN  IF d <= 0 THEN m
        ELSE LET unit == 2 ^ d
                 low == m.c % unit
                 half == unit \div 2
                 kept == Mag(m.i, m.a, m.b, m.c - low)
                 odd == (m.c \div unit) % 2 = 1
                 up == \/ low > half
                       \/ low = half /\ (sticky \/ odd)
             IN  IF up THEN MagAdd(kept, Mag(0, 0, 0, unit)) ELSE kept

F64(neg, m) == [neg |-> neg /\ m # MagZero, m |-> m]

\* An integer as f64 (exact).
F64Int(k) == F64(k < 0, Mag(Abs(k), 0, 0, 0))

F64Neg(x) == F64(~x.neg, x.m)

\* The exact sum of two f64 values.
ExactAdd(x, y) ==
    IF x.neg = y.neg THEN F64(x.neg, MagAdd(x.m, y.m))
    ELSE IF MagLt(x.m, y.m) THEN F64(y.neg, MagSub(y.m, x.m))
    ELSE F64(x.neg, MagSub(x.m, y.m))

\* f64 + and -
F64Add(x, y) == LET e == ExactAdd(x, y) IN F64(e.neg, Round53(e.m, FALSE))
F64Sub(x, y) == F64Add(x, F64Neg(y))

\* f64 / of two positive integers p >= q that are exact f64 values.
F64Div(p, q) ==
    LET r0 == p % q
        r1 == (r0 * Limb) % q
        r2 == (r1 * Limb) % q
        r3 == (r2 * Limb) % q
    IN  F64(FALSE,
            Round53(Mag(p \div q, (r0 * Limb) \div q, (r1 * Limb) \div q,
                        (r2 * Limb) \div q),
                    r3 # 0))

\* f64 / 2.0 of a value whose last bit is at 2^-62 or above (exact).
F64Half(x) ==
    F64(x.neg, Mag(x.m.i \div 2,
                   ((x.m.i % 2) * Limb + x.m.a) \div 2,
                   ((x.m.a % 2) * Limb + x.m.b) \div 2,
                   ((x.m.b % 2) * Limb + x.m.c) \div 2))

\* f64 <
F64Lt(x, y) ==
    IF x.neg # y.neg THEN x.neg
    ELSE IF x.neg THEN MagLt(y.m, x.m)
    ELSE MagLt(x.m, y.m)

\* latbin[row] as Isin::new computes it in f64: (row + 0.5) * 180.0 is the
\* exact integer 180 * row + 90.
f64_row_lat(row, numrows) ==
    F64Sub(F64Div(180 * row + 90, numrows), F64Int(90))

\* The center longitude of a bin as computed in f64: 360.0 * (bin_val -
\* basebin + 0.5) is the exact integer 360 * (bin_val - basebin) + 180.
f64_bin_lon(self, bin_val, row) ==
    F64Sub(F64Div(360 * (bin_val - self.basebin[row + 1]) + 180,
                  self.numbin[row + 1]),
           F64Int(180))

\* Mutant: the rectangle with north and south exchanged.
f64_bin_bounds_swapped(self, bin_val, row) ==
    LET latbin == f64_row_lat(row, self.numrows)
        north == F64Add(latbin, F64Div(90, self.numrows))
        south == F64Sub(latbin, F64Div(90, self.numrows))
        lon == f64_bin_lon(self, bin_val, row)
        west == F64Sub(lon, F64Div(180, self.numbin[row + 1]))
        east == F64Add(lon, F64Div(180, self.numbin[row + 1]))
    IN  <<south, north, west, east>>

\* The rectangle (north, south, west, east) of a bin as computed in f64.
f64_bin_bounds(self, bin_val, row) ==
    LET latbin == f64_row_lat(row, self.numrows)
        north == F64Add(latbin, F64Div(90, self.numrows))
        south == F64Sub(latbin, F64Div(90, self.numrows))
        lon == f64_bin_lon(self, bin_val, row)
        west == F64Sub(lon, F64Div(180, self.numbin[row + 1]))
        east == F64Add(lon, F64Div(180, self.numbin[row + 1]))
    IN  <<north, south, west, east>>

RECURSIVE f64_bin2bounds_loop(_, _, _, _, _)
f64_bin2bounds_loop(self, bin, i, result, rows) ==
    IF i >= Len(bin) THEN Ok(result, rows)
    ELSE LET bin_val == bin[i + 1]
             row == find_row(self, bin_val)
         IN  IF row < 0 THEN Panic("overflow")
             ELSE IF row >= Len(self.latbin) THEN Panic("index out of bounds")
             ELSE f64_bin2bounds_loop(self, bin, i + 1,
                      Append(result, f64_bin_bounds(self, bin_val, row)),
                      Append(rows, row))

\* Isin::bin2bounds with its f64 arithmetic rounded as IEEE 754 rounds it.
f64_bin2bounds(self, bin) ==
    LET v == validate_bins(self, bin)
    IN  IF v.kind # "Ok" THEN v ELSE f64_bin2bounds_loop(self, bin, 0, <<>>, <<>>)

\* ------------------------------------------- lib.rs: the linear-scan variant

\* The downward scan of lib.rs from `row`; -1 stands for the usize underflow
\* of 0 - 1.
RECURSIVE scan_down(_, _, _)
scan_down(self, bin_val, row) ==
    IF row < 0 THEN -1
    ELSE IF bin_val < self.basebin[row + 1] THEN scan_down(self, bin_val, row - 1)
    ELSE row

\* Mutant: the scan steps down while bin_val <= basebin[row].
lib_find_row_le(self, bin_val) == scan_down(self, bin_val - 1, self.numrows - 1)

lib_find_row(self, bin_val) == scan_down(self, bin_val, self.numrows - 1)

RECURSIVE lib_bin2lonlat_loop(_, _, _, _, _)
lib_bin2lonlat_loop(self, bin, i, result, rows) ==
    IF i >= Len(bin) THEN Ok(result, rows)
    ELSE LET bin_val == IF bin[i + 1] < 1 THEN 1 ELSE bin[i + 1]
             row == lib_find_row(self, bin_val)
         IN  IF row < 0 THEN Panic("overflow")
             ELSE lib_bin2lonlat_loop(self, bin, i + 1,
                      Append(result, <<bin_lon(self, bin_val, row), self.latbin[row + 1]>>),
                      Append(rows, row))

\* lib.rs asserts the bin range instead of returning an error.
lib_bin2lonlat(self, bin) ==
    IF ~(\A i \in 1..Len(bin) : bin[i] >= 1 /\ bin[i] <= self.totbin)
    THEN Panic("assertion failed")
    ELSE lib_bin2lonlat_loop(self, bin, 0, <<>>, <<>>)

RECURSIVE lib_bin2bounds_loop(_, _, _, _, _)
lib_bin2bounds_loop(self, bin, i, result, rows) ==
    IF i >= Len(bin) THEN Ok(result, rows)
    ELSE LET bin_val == IF bin[i + 1] < 1 THEN 1 ELSE bin[i + 1]
             row == lib_find_row(self, bin_val)
         IN  IF row < 0 THEN Panic("overflow")
             ELSE lib_bin2bounds_loop(self, bin, i + 1,
                      Append(result, bin_bounds(self, bin_val, row)),
                      Append(rows, row))

lib_bin2bounds(self, bin) ==
    IF ~(\A i \in 1..Len(bin) : bin[i] >= 1 /\ bin[i] <= self.totbin)
    THEN Panic("assertion failed")
    ELSE lib_bin2bounds_loop(self, bin, 0, <<>>, <<>>)

\* ------------------------------------------------------------------ inputs

\* Longitudes and latitudes handed to the batch query: the range ends, values
\* just outside them, and interior values on and off the bin edges.
LonInputs == {Rat(k, 2) : k \in {-360, -75, 359, 360, 362}}
LatInputs == {Rat(k, 2) : k \in {-182, -180, -75, 0, 180, 182}}

\* Latitudes handed to lat2row: every half degree from -92 to 92.
LatRowInputs == {Rat(k, 2) : k \in -184..184}

\* Sequences over S of length 1..n.
Batches(S, n) == UNION {[1..k -> S] : k \in 1..n}

\* Row counts handed to with_num_latitude_rows: 0, every multiple of 360 up
\* to 360 * MaxRows and everything between and just past them.
RowCountInputs == 0..(360 * MaxRows + 1)

\* Bin ids handed to the inverse queries: every id of the table and the two
\* just outside it.
BinInputs == 0..(isin.totbin + 1)

\* ------------------------------------------------------------------ state

NoCall == [op |-> "none", numrows |-> 0, lon |-> <<>>, lat |-> <<>>, bin |-> <<>>]

Init ==
    /\ isin = NoIsin
    /\ call = NoCall
    /\ ret = Ok(<<>>, <<>>)

\* A table exists and no call is in progress.
Built == isin.numrows > 0
Idle == call.op = "none"

New ==
    /\ Idle
    /\ \E n \in 0..MaxRows :
        LET r == Isin_new(Custom(n))
        IN  /\ isin' = r.isin
            /\ call' = [NoCall EXCEPT !.op = "new", !.numrows = n]
            /\ ret' = IF r.kind = "Ok" THEN Ok(<<>>, <<>>) ELSE Panic("overflow")

WithNumLatitudeRows ==
    /\ Idle
    /\ \E n \in RowCountInputs :
        /\ call' = [NoCall EXCEPT !.op = "with_num_latitude_rows", !.numrows = n]
        /\ ret' = with_num_latitude_rows(n)
    /\ UNCHANGED isin

Lat2Row ==
    /\ Idle
    /\ Built
    /\ \E lat \in LatRowInputs :
        /\ call' = [NoCall EXCEPT !.op = "lat2row", !.lat = <<lat>>]
        /\ ret' = lat2row(isin, lat)
    /\ UNCHANGED isin

LonLat2Bin ==
    /\ Idle
    /\ Built
    /\ \E k \in 1..MaxBatch :
       \E lon \in [1..k -> LonInputs], lat \in [1..k -> LatInputs] :
        /\ call' = [NoCall EXCEPT !.op = "lonlat2bin", !.lon = lon, !.lat = lat]
        /\ ret' = lonlat2bin(isin, lon, lat)
    /\ UNCHANGED isin

Bin2LonLat ==
    /\ Idle
    /\ Built
    /\ \E bin \in Batches(BinInputs, MaxBatch) :
        /\ call' = [NoCall EXCEPT !.op = "bin2lonlat", !.bin = bin]
        /\ ret' = bin2lonlat(isin, bin)
    /\ UNCHANGED isin

Bin2Bounds ==
    /\ Idle
    /\ Built
    /\ \E bin \in Batches(BinInputs, MaxBatch) :
        /\ call' = [NoCall EXCEPT !.op = "bin2bounds", !.bin = bin]
        /\ ret' = bin2bounds(isin, bin)
    /\ UNCHANGED isin

LibBin2LonLat ==
    /\ Idle
    /\ Built
    /\ \E bin \in Batches(BinInputs, MaxBatch) :
        /\ call' = [NoCall EXCEPT !.op = "lib_bin2lonlat", !.bin = bin]
        /\ ret' = lib_bin2lonlat(isin, bin)
    /\ UNCHANGED isin

LibBin2Bounds ==
    /\ Idle
    /\ Built
    /\ \E bin \in Batches(BinInputs, MaxBatch) :
        /\ call' = [NoCall EXCEPT !.op = "lib_bin2bounds", !.bin = bin]
        /\ ret' = lib_bin2bounds(isin, bin)
    /\ UNCHANGED isin

\* The caller takes the outcome of the call; the table stays.
Return ==
    /\ ~Idle
    /\ call' = NoCall
    /\ ret' = Ok(<<>>, <<>>)
    /\ UNCHANGED isin

Next ==
    \/ New
    \/ WithNumLatitudeRows
    \/ Return
    \/ Lat2Row
    \/ LonLat2Bin
    \/ Bin2LonLat
    \/ Bin2Bounds
    \/ LibBin2LonLat
    \/ LibBin2Bounds

Spec == Init /\ [][Next]_vars

\* ------------------------------------------ the table queried in rounded f64

\* Isin::new for the grids whose rectangles are computed in rounded f64.
F64New ==
    /\ Idle
    /\ \E n \in 0..MaxRowsF64 :
        LET r == Isin_new(Custom(n))
        IN  /\ isin' = r.isin
            /\ call' = [NoCall EXCEPT !.op = "new", !.numrows = n]
            /\ ret' = IF r.kind = "Ok" THEN Ok(<<>>, <<>>) ELSE Panic("overflow")

\* Isin::bin2bounds on one bin or a pair of bins, in rounded f64.
F64Bin2Bounds ==
    /\ Idle
    /\ Built
    /\ \E bin \in Batches(BinInputs, 2) :
        /\ call' = [NoCall EXCEPT !.op = "f64_bin2bounds", !.bin = bin]
        /\ ret' = f64_bin2bounds(isin, bin)
    /\ UNCHANGED isin

NextF64 ==
    \/ F64New
    \/ Return
    \/ F64Bin2Bounds

SpecF64 == Init /\ [][NextF64]_vars

\* ================================================================== claims

\* Range predicates of the contract, stated on the rationals directly.
LonOk(q) == -180 * q[2] <= q[1] /\ q[1] <= 180 * q[2]
LatOk(q) == -90 * q[2] <= q[1] /\ q[1] <= 90 * q[2]
BinOk(b) == 1 <= b /\ b <= isin.totbin

\* Row r (0-based) holds bin id b.
Holds(r, b) ==
    isin.basebin[r + 1] <= b /\ b < isin.basebin[r + 1] + isin.numbin[r + 1]

Rows == 0..(isin.numrows - 1)

\* C1: for every row count >= 1 the table of Isin::new has basebin[0] = 1,
\* basebin[r] + numbin[r] = basebin[r+1], numbin[r] >= 1 (so basebin is
\* strictly increasing), totbin = basebin[last] + numbin[last] - 1, and every
\* bin id of [1, totbin] lies in the id range of exactly one row.
C1_RowPartition ==
    (call.op = "new" /\ call.numrows >= 1) =>
        /\ ret.kind = "Ok"
        /\ isin.numrows = call.numrows
        /\ Len(isin.basebin) = isin.numrows
        /\ Len(isin.numbin) = isin.numrows
        /\ isin.basebin[1] = 1
        /\ \A r \in 1..(isin.numrows - 1) :
              /\ isin.basebin[r] + isin.numbin[r] = isin.basebin[r + 1]
              /\ isin.basebin[r] < isin.basebin[r + 1]
        /\ \A r \in 1..isin.numrows : isin.numbin[r] >= 1
        /\ isin.totbin = isin.basebin[isin.numrows] + isin.numbin[isin.numrows] - 1
        /\ \A b \in 1..isin.totbin : Cardinality({r \in Rows : Holds(r, b)}) = 1

C1_Witness ==
    /\ call.op = "new"
    /\ ret.kind = "Ok"
    /\ isin.numrows >= 3
    /\ isin.totbin > isin.numrows

\* C2: for every lon in [-180, 180] and lat in [-90, 90], the ends included,
\* lonlat2bin completes without failing, every row it indexes is in
\* [0, numRows-1] and every bin id it returns is in [1, totbin].
C2_LonLat2BinTotal ==
    (/\ call.op = "lonlat2bin"
     /\ \A i \in 1..Len(call.lon) : LonOk(call.lon[i])
     /\ \A i \in 1..Len(call.lat) : LatOk(call.lat[i]))
    => /\ ret.kind = "Ok"
       /\ Len(ret.val) = Len(call.lat)
       /\ \A i \in 1..Len(ret.rows) : ret.rows[i] \in Rows
       /\ \A i \in 1..Len(ret.val) : BinOk(ret.val[i])

\* C3: building a grid with numRows = 0 returns a configuration error value
\* and produces no table, without terminating abnormally.
C3_ZeroRowsRejected ==
    (call.op = "new" /\ call.numrows = 0)
    => (ret.kind = "Err" /\ isin = NoIsin)

\* C4: lat2row returns an error for a latitude outside [-90, 90]; inside it
\* returns the row floor((90 + lat) * numRows / 180) unclamped, so
\* lat2row(-90) = 0, lat2row(0) = numRows/2 for even numRows and
\* lat2row(90) = numRows.
C4_Lat2Row ==
    call.op = "lat2row" =>
        LET lat == call.lat[1]
            n == isin.numrows
            x == RMul(RAdd(F(90), lat), F(n))
        IN  /\ ~LatOk(lat) => (ret.kind = "Err" /\ ret.val = <<>>)
            /\ LatOk(lat) =>
                /\ ret.kind = "Ok"
                /\ Len(ret.val) = 1
                /\ ret.val[1] \in Nat
                /\ RLe(F(180 * ret.val[1]), x)
                /\ RLt(x, F(180 * (ret.val[1] + 1)))
                /\ lat = F(-90) => ret.val[1] = 0
                /\ (lat = F(0) /\ n % 2 = 0) => 2 * ret.val[1] = n
                /\ lat = F(90) => ret.val[1] = n

C4_Witness ==
    /\ call.op = "lat2row"
    /\ call.lat = <<F(90)>>
    /\ isin.numrows >= 2
    /\ ret.kind = "Ok"
    /\ ret.val = <<isin.numrows>>

\* C5: lonlat2bin is all-or-nothing: when any longitude of the batch is
\* outside [-180, 180] or any latitude outside [-90, 90], at any position, the
\* call returns a range error and no bin id, and no element was computed.
C5_LonLat2BinAllOrNothing ==
    (/\ call.op = "lonlat2bin"
     /\ \/ \E i \in 1..Len(call.lon) : ~LonOk(call.lon[i])
        \/ \E i \in 1..Len(call.lat) : ~LatOk(call.lat[i]))
    => /\ ret.kind = "Err"
       /\ ret.err \in {"longitudes", "latitudes"}
       /\ ret.val = <<>>
       /\ ret.rows = <<>>

C5_Witness ==
    /\ call.op = "lonlat2bin"
    /\ Len(call.lat) = 2
    /\ LonOk(call.lon[1]) /\ LatOk(call.lat[1])
    /\ ~LonOk(call.lon[2]) /\ LatOk(call.lat[2])
    /\ ret.kind = "Err"

\* The row holding bin id b, read off the table.
RowOf(b) == CHOOSE r \in Rows : Holds(r, b)

\* West and east edge of column col of a row of num bins.
ColWest(col, num) == RSub(Rat(360 * col, num), F(180))
ColEast(col, num) == RSub(Rat(360 * (col + 1), num), F(180))

\* The point (lon, lat) lies inside the cell of bin id b.
InCell(lon, lat, b) ==
    LET r == RowOf(b)
        num == isin.numbin[r + 1]
        col == b - isin.basebin[r + 1]
    IN  /\ lat = isin.latbin[r + 1]
        /\ RLt(ColWest(col, num), lon)
        /\ RLt(lon, ColEast(col, num))

\* C6: bin2lonlat and bin2bounds return an error naming totbin exactly when
\* some bin id of the batch is outside [1, totbin], and then no result;
\* otherwise they return one result per input bin, in input order.
C6_BinRange ==
    call.op \in {"bin2lonlat", "bin2bounds"} =>
        LET bad == \E i \in 1..Len(call.bin) : ~BinOk(call.bin[i])
        IN  /\ bad <=> ret.kind = "Err"
            /\ ret.kind = "Err" =>
                /\ ret.err = "InvalidBinRange"
                /\ ret.max_bin = isin.totbin
                /\ ret.val = <<>>
            /\ ~bad =>
                /\ ret.kind = "Ok"
                /\ Len(ret.val) = Len(call.bin)
                /\ \A i \in 1..Len(call.bin) :
                      LET v == ret.val[i]
                      IN  IF call.op = "bin2lonlat"
                          THEN InCell(v[1], v[2], call.bin[i])
                          ELSE InCell(RDiv(RAdd(v[3], v[4]), F(2)),
                                      RDiv(RAdd(v[1], v[2]), F(2)), call.bin[i])

C6_Witness ==
    /\ call.op = "bin2lonlat"
    /\ isin.numrows >= 2
    /\ call.bin = <<isin.totbin, isin.totbin + 1>>
    /\ ret.kind = "Err"
    /\ ret.max_bin = isin.totbin

\* C7: for every bin id b in [1, totbin] the row chosen by the binary search
\* of bin2lonlat and bin2bounds is in [0, numRows-1] and is the only row with
\* basebin[row] <= b < basebin[row] + numbin[row]; the insertion point minus
\* one never underflows.
C7_BinarySearchRow ==
    (/\ call.op \in {"bin2lonlat", "bin2bounds"}
     /\ \A i \in 1..Len(call.bin) : BinOk(call.bin[i]))
    => /\ ret.kind = "Ok"
       /\ Len(ret.rows) = Len(call.bin)
       /\ \A i \in 1..Len(call.bin) :
             /\ ret.rows[i] \in Rows
             /\ Holds(ret.rows[i], call.bin[i])
             /\ \A r \in Rows : Holds(r, call.bin[i]) => r = ret.rows[i]

C7_Witness ==
    /\ call.op = "bin2bounds"
    /\ ret.kind = "Ok"
    /\ Len(call.bin) = 2
    /\ ret.rows[1] = isin.numrows - 1
    /\ call.bin[1] > isin.basebin[isin.numrows]
    /\ ret.rows[2] = 1
    /\ call.bin[2] = isin.basebin[2]

RAbs(q) == <<Abs(q[1]), q[2]>>

\* C8: for every lon in [-180, 180) and lat in [-90, 90], bin2lonlat of
\* lonlat2bin succeeds and returns a point within 90/numRows of the latitude
\* and within 180/numbin[row] of the longitude.
C8_RoundTripTolerance ==
    (/\ call.op = "lonlat2bin"
     /\ \A i \in 1..Len(call.lon) :
           LonOk(call.lon[i]) /\ call.lon[i] # F(180)
     /\ \A i \in 1..Len(call.lat) : LatOk(call.lat[i]))
    => /\ ret.kind = "Ok"
       /\ LET back == bin2lonlat(isin, ret.val)
          IN  /\ back.kind = "Ok"
              /\ Len(back.val) = Len(call.lat)
              /\ \A i \in 1..Len(call.lat) :
                    /\ RLe(RAbs(RSub(back.val[i][2], call.lat[i])),
                           Rat(90, isin.numrows))
                    /\ RLe(RAbs(RSub(back.val[i][1], call.lon[i])),
                           Rat(180, isin.numbin[back.rows[i] + 1]))

\* The rectangles of a batch the f64 bin2bounds answered.
F64Answered == call.op = "f64_bin2bounds" /\ ret.kind = "Ok"

F64Eq(x, y) == x = y

\* |x - y| <= 2^-40, with the difference taken exactly.
F64Near(x, y) == ~MagLt(Mag(0, 0, 4, 0), ExactAdd(x, F64Neg(y)).m)

\* The rectangle of the i-th bin of the batch is (north, south, west, east),
\* north > south and east > west, each edge the center of the bin plus or
\* minus half the height of a row or half the width of a bin of the row.
C9_Edges(i) ==
    LET b == call.bin[i]
        row == RowOf(b)
        lon == f64_bin_lon(isin, b, row)
        lat == f64_row_lat(row, isin.numrows)
        half_h == F64Div(90, isin.numrows)
        half_w == F64Div(180, isin.numbin[row + 1])
        north == ret.val[i][1]
        south == ret.val[i][2]
        west == ret.val[i][3]
        east == ret.val[i][4]
    IN  /\ F64Lt(south, north)
        /\ F64Lt(west, east)
        /\ north = F64Add(lat, half_h)
        /\ south = F64Sub(lat, half_h)
        /\ west = F64Sub(lon, half_w)
        /\ east = F64Add(lon, half_w)

\* The midpoint of the rectangle of the i-th bin, computed in f64, is the
\* center bin2lonlat returns for the bin.
C9_Midpoint(i, same(_, _)) ==
    LET b == call.bin[i]
        row == RowOf(b)
    IN  /\ same(F64Half(F64Add(ret.val[i][3], ret.val[i][4])),
                f64_bin_lon(isin, b, row))
        /\ same(F64Half(F64Add(ret.val[i][1], ret.val[i][2])),
                f64_row_lat(row, isin.numrows))

C9_Case ==
    /\ call.op = "f64_bin2bounds"
    /\ \A i \in 1..Len(call.bin) : BinOk(call.bin[i])

\* C9: for every bin id b in [1, totbin], bin2bounds returns (north, south,
\* west, east) with north > south and east > west, north/south the center
\* latitude of b's row plus/minus 90/numRows and west/east the center
\* longitude bin2lonlat returns for b minus/plus 180/numbin[row]; the center
\* of bin2lonlat is the midpoint of the rectangle.
C9_ExactMidpoint ==
    C9_Case
    => /\ ret.kind = "Ok"
       /\ Len(ret.val) = Len(call.bin)
       /\ \A i \in 1..Len(call.bin) : C9_Edges(i) /\ C9_Midpoint(i, F64Eq)

\* C9, amended: as C9, but the center of bin2lonlat is the midpoint of the
\* rectangle only up to the rounding of f64: they differ by at most 2^-40
\* degree.
C9_BoundsAroundCenter ==
    C9_Case
    => /\ ret.kind = "Ok"
       /\ Len(ret.val) = Len(call.bin)
       /\ \A i \in 1..Len(call.bin) : C9_Edges(i) /\ C9_Midpoint(i, F64Near)

\* A bin whose rectangle has a midpoint that is not its center.
C9_Witness ==
    /\ C9_Case
    /\ ret.kind = "Ok"
    /\ Len(call.bin) = 1
    /\ C9_Edges(1)
    /\ ~C9_Midpoint(1, F64Eq)
    /\ C9_Midpoint(1, F64Near)

\* C10: for every table and every bin id b in [1, totbin] the downward linear
\* scan of the lib.rs variant terminates without underflowing and selects
\* the row the binary search of the isin.rs variant selects, so both variants
\* of bin2lonlat and bin2bounds return the same results.
C10_ScanEqualsBinarySearch ==
    (/\ call.op \in {"lib_bin2lonlat", "lib_bin2bounds"}
     /\ \A i \in 1..Len(call.bin) : BinOk(call.bin[i]))
    => LET other == IF call.op = "lib_bin2lonlat"
                    THEN bin2lonlat(isin, call.bin)
                    ELSE bin2bounds(isin, call.bin)
       IN  /\ ret.kind = "Ok"
           /\ other.kind = "Ok"
           /\ Len(ret.rows) = Len(call.bin)
           /\ ret.rows = other.rows
           /\ ret.val = other.val

C10_Witness ==
    /\ call.op = "lib_bin2bounds"
    /\ ret.kind = "Ok"
    /\ isin.numrows >= 3
    /\ Len(call.bin) = 2
    /\ ret.rows[1] = 0
    /\ ret.rows[2] = isin.numrows - 1
    /\ ret.rows = bin2bounds(isin, call.bin).rows

\* C11: with_num_latitude_rows(n) returns Ok(Custom(n)) exactly when n is a
\* positive multiple of 360 and Err(InvalidNumLatitudeRows) for every other
\* n, and num_latitude_rows of an accepted value is that same positive n.
C11_PresetOnlyValidRows ==
    call.op = "with_num_latitude_rows" =>
        LET n == call.numrows
        IN  /\ ret.kind = "Ok" <=> (n > 0 /\ n % 360 = 0)
            /\ ret.kind = "Ok" =>
                /\ ret.val = <<[tag |-> "Custom", n |-> n]>>
                /\ num_latitude_rows(ret.val[1]) = n
                /\ num_latitude_rows(ret.val[1]) > 0
            /\ ret.kind # "Ok" =>
                (ret.kind = "Err" /\ ret.err = "InvalidNumLatitudeRows")

\* The longitudes and the latitudes of a vector of (lon, lat) centers.
Lons(v) == [i \in 1..Len(v) |-> v[i][1]]
Lats(v) == [i \in 1..Len(v) |-> v[i][2]]

\* C12: for every table and every bin id b in [1, totbin], lonlat2bin of the
\* center bin2lonlat returns for b succeeds and returns b again.
C12_BinRoundTrip ==
    (/\ call.op = "bin2lonlat"
     /\ \A i \in 1..Len(call.bin) : BinOk(call.bin[i]))
    => /\ ret.kind = "Ok"
       /\ LET back == lonlat2bin(isin, Lons(ret.val), Lats(ret.val))
          IN  /\ back.kind = "Ok"
              /\ back.val = call.bin

C12_Witness ==
    /\ call.op = "bin2lonlat"
    /\ isin.numrows >= 3
    /\ call.bin = <<isin.totbin, isin.basebin[2] + 1>>
    /\ ret.kind = "Ok"
    /\ lonlat2bin(isin, Lons(ret.val), Lats(ret.val)).val = call.bin

\* ------------------------------------------------------------------- C13

LastOfRow(b, row) == b = isin.basebin[row + 1] + isin.numbin[row + 1] - 1

\* Within a row: the first bin's west edge is -180, the last bin's east edge
\* is 180, and consecutive bins of a row share an edge.
TilesRow(same(_, _)) ==
    \A i \in 1..Len(call.bin) :
        LET b == call.bin[i]
            row == ret.rows[i]
        IN  /\ b = isin.basebin[row + 1] => same(ret.val[i][3], F64Int(MIN_LON))
            /\ LastOfRow(b, row) => same(ret.val[i][4], F64Int(MAX_LON))
            /\ \A j \in 1..Len(call.bin) :
                  (call.bin[j] = b + 1 /\ ret.rows[j] = row)
                  => same(ret.val[i][4], ret.val[j][3])

\* Across rows: row 0 starts at -90, the last row ends at 90, and consecutive
\* rows share an edge.
TilesColumn(same(_, _)) ==
    \A i \in 1..Len(call.bin) :
        LET row == ret.rows[i]
        IN  /\ row = 0 => same(ret.val[i][2], F64Int(MIN_LAT))
            /\ row = isin.numrows - 1 => same(ret.val[i][1], F64Int(MAX_LAT))
            /\ \A j \in 1..Len(call.bin) :
                  ret.rows[j] = row + 1 => same(ret.val[i][1], ret.val[j][2])

\* C13: the rectangles returned by bin2bounds tile the globe without gaps or
\* overlaps: in each row the first bin's west edge is -180, the last bin's
\* east edge is 180 and east(b) == west(b+1) for consecutive bins of the row;
\* north of row r equals south of row r+1, south of row 0 is -90 and north of
\* the last row is 90.
C13_ExactTiling ==
    F64Answered => TilesRow(F64Eq) /\ TilesColumn(F64Eq)

\* What the f64 rectangles do satisfy: every pair of edges that C13 equates
\* agrees within 2^-40 degree.
TilingUpToRounding ==
    F64Answered => TilesRow(F64Near) /\ TilesColumn(F64Near)

=============================================================================
